---- MODULE Spec2Model ----
(***************************************************************************)
(* Model of homework.py: the fitness tracker's workout classes (Training,  *)
(* Running, SportsWalking, Swimming), the dispatcher read_package, the     *)
(* formatter InfoMessage.get_message and the batch loop under __main__.    *)
(*                                                                         *)
(* Numbers are exact rationals n/d in lowest terms (d > 0) carrying an     *)
(* exception slot: an operand that already raised propagates, and a        *)
(* division or floor division by zero raises ZeroDivisionError, as         *)
(* Python's / and // do.  Binary floating-point rounding is not modelled.  *)
(***************************************************************************)
EXTENDS Integers, Sequences, FiniteSets, TLC

VARIABLES packages, idx, pc, training, info, output, error,
          records, results, ncalls

vars == <<packages, idx, pc, training, info, output, error,
          records, results, ncalls>>

batchVars == <<packages, idx, pc, training, info, output, error>>
callVars == <<records, results, ncalls>>

(***************************** bounds **************************************)
MaxPackages == 3
MaxLen == 6
MaxK == 2
MaxCalls == 4

(***************************** numbers *************************************)
Abs(x) == IF x < 0 THEN -x ELSE x

RECURSIVE GCD(_, _)
GCD(a, b) == IF b = 0 THEN a ELSE GCD(b, a % b)

\* n/d in lowest terms with a positive denominator (d # 0)
Rat(n, d) ==
    LET g == GCD(Abs(n), Abs(d))
        s == IF d < 0 THEN -1 ELSE 1
    IN [err |-> "none", n |-> s * (n \div g), d |-> s * (d \div g)]

Int2Num(k) == [err |-> "none", n |-> k, d |-> 1]

Raise(e) == [err |-> e, n |-> 0, d |-> 1]

Add(a, b) ==
    IF a.err # "none" THEN a
    ELSE IF b.err # "none" THEN b
    ELSE Rat(a.n * b.d + b.n * a.d, a.d * b.d)

Sub(a, b) ==
    IF a.err # "none" THEN a
    ELSE IF b.err # "none" THEN b
    ELSE Rat(a.n * b.d - b.n * a.d, a.d * b.d)

Mul(a, b) ==
    IF a.err # "none" THEN a
    ELSE IF b.err # "none" THEN b
    ELSE Rat(a.n * b.n, a.d * b.d)

\* Python's true division: a zero divisor raises ZeroDivisionError
Div(a, b) ==
    IF a.err # "none" THEN a
    ELSE IF b.err # "none" THEN b
    ELSE IF b.n = 0 THEN Raise("ZeroDivisionError")
    ELSE Rat(a.n * b.d, a.d * b.n)

\* faulty variant: true division where the code floors
FloorDiv_TrueDivision(a, b) == Div(a, b)

\* Python's floor division a // b: the floor of the quotient
FloorDiv(a, b) ==
    LET q == Div(a, b)
    IN IF q.err # "none" THEN q ELSE Int2Num(q.n \div q.d)

Square(a) == Mul(a, a)

Less(a, b) == a.n * b.d < b.n * a.d

Positive(a) == a.n > 0

(***************************** InfoMessage *********************************)
InfoMessage(training_type, duration, distance, speed, calories) ==
    [training_type |-> training_type, duration |-> duration,
     distance |-> distance, speed |-> speed, calories |-> calories]

NoInfo == [training_type |-> "None"]

\* '{x:.3f}': x in thousandths, rounded to nearest, an exact tie to even
\* (the integer part, then three decimal digits by long division)
Fixed3(x) ==
    LET ip == x.n \div x.d
        f0 == x.n - ip * x.d
        d1 == (10 * f0) \div x.d
        f1 == 10 * f0 - d1 * x.d
        d2 == (10 * f1) \div x.d
        f2 == 10 * f1 - d2 * x.d
        d3 == (10 * f2) \div x.d
        r == 10 * f2 - d3 * x.d
        q == ip * 1000 + d1 * 100 + d2 * 10 + d3
    IN IF 2 * r > x.d THEN q + 1
       ELSE IF 2 * r < x.d THEN q
       ELSE IF q % 2 = 0 THEN q ELSE q + 1

\* message_output.format(**asdict(self)): the template's placeholders in
\* order, each with the text it is replaced by (.3f values in thousandths)
get_message(self) ==
    <<"training_type", self.training_type,
      "duration", Fixed3(self.duration),
      "distance", Fixed3(self.distance),
      "speed", Fixed3(self.speed),
      "calories", Fixed3(self.calories)>>

(***************************** Training ************************************)
M_IN_KM == Int2Num(1000)
MINUTES_IN_HOURS == Int2Num(60)

LEN_STEP(cls) == IF cls = "Swimming" THEN Rat(138, 100) ELSE Rat(65, 100)

\* A method is a function of the object returning the object as the call
\* leaves it (self) and the value or exception of the call (ret).
Return(self, ret) == [self |-> self, ret |-> ret]

Training_init(cls, action, duration, weight) ==
    [cls |-> cls, action |-> action, duration_km |-> duration,
     weight |-> weight]

\* faulty variant: a subtraction where the code divides by M_IN_KM
Training_get_distance_Minus(self) ==
    Return(self, Sub(Mul(self.action, LEN_STEP(self.cls)), M_IN_KM))

\* faulty variant: the distance is stored over the action field
Training_get_distance_Storing(self) ==
    LET dist == Div(Mul(self.action, LEN_STEP(self.cls)), M_IN_KM)
    IN Return([self EXCEPT !.action = dist], dist)

Training_get_distance(self) ==
    Return(self, Div(Mul(self.action, LEN_STEP(self.cls)), M_IN_KM))

get_distance(self) == Training_get_distance(self)

\* faulty variant: a zero duration is guarded and gives speed 0
Training_get_mean_speed_Guarded(self) ==
    LET dist == get_distance(self)
    IN Return(dist.self,
              IF dist.self.duration_km.n = 0 THEN Int2Num(0)
              ELSE Div(dist.ret, dist.self.duration_km))

Training_get_mean_speed(self) ==
    LET dist == get_distance(self)
    IN Return(dist.self, Div(dist.ret, dist.self.duration_km))

Training_get_spent_calories(self) ==
    Return(self, Raise("NotImplementedError"))

(***************************** Running *************************************)
RUN_CALORIE_1 == Int2Num(18)
RUN_CALORIE_2 == Int2Num(20)

Running_init(action, duration, weight) ==
    Training_init("Running", action, duration, weight)

(***************************** SportsWalking *******************************)
WALK_CALORIE_1 == Rat(35, 1000)
WALK_CALORIE_2 == Rat(29, 1000)

SportsWalking_init(action, duration, weight, height) ==
    [cls |-> "SportsWalking", action |-> action, duration_km |-> duration,
     weight |-> weight, height |-> height]

(***************************** Swimming ************************************)
SWIM_CALORIE_1 == Rat(11, 10)
SWIM_CALORIE_2 == Int2Num(2)

Swimming_init(action, duration, weight, length_pool, count_pool) ==
    [cls |-> "Swimming", action |-> action, duration_km |-> duration,
     weight |-> weight, length_pool |-> length_pool,
     count_pool |-> count_pool]

\* faulty variant: the override is missing and the base class's speed is used
Swimming_get_mean_speed_Inherited(self) ==
    LET dist == get_distance(self)
    IN Return(dist.self, Div(dist.ret, dist.self.duration_km))

Swimming_get_mean_speed(self) ==
    Return(self, Div(Div(Mul(self.length_pool, self.count_pool), M_IN_KM),
                     self.duration_km))

get_mean_speed(self) ==
    IF self.cls = "Swimming" THEN Swimming_get_mean_speed(self)
    ELSE Training_get_mean_speed(self)

\* faulty variant: the duration is left in hours
Running_get_spent_calories_NoMinutes(self) ==
    LET speed == get_mean_speed(self)
        s == speed.self
    IN Return(s,
         Mul(Div(Mul(Sub(Mul(RUN_CALORIE_1, speed.ret), RUN_CALORIE_2),
                     s.weight),
                 M_IN_KM),
             s.duration_km))

\* faulty variant: negative calories are clamped to zero
Running_get_spent_calories_Clamped(self) ==
    LET speed == get_mean_speed(self)
        s == speed.self
        cal == Mul(Div(Mul(Sub(Mul(RUN_CALORIE_1, speed.ret), RUN_CALORIE_2),
                           s.weight),
                       M_IN_KM),
                   Mul(s.duration_km, MINUTES_IN_HOURS))
    IN Return(s, IF cal.err = "none" /\ cal.n < 0 THEN Int2Num(0) ELSE cal)

Running_get_spent_calories(self) ==
    LET speed == get_mean_speed(self)
        s == speed.self
    IN Return(s,
         Mul(Div(Mul(Sub(Mul(RUN_CALORIE_1, speed.ret), RUN_CALORIE_2),
                     s.weight),
                 M_IN_KM),
             Mul(s.duration_km, MINUTES_IN_HOURS)))

SportsWalking_get_spent_calories(self) ==
    LET speed == get_mean_speed(self)
        s == speed.self
    IN Return(s,
         Mul(Add(Mul(WALK_CALORIE_1, self.weight),
                 Mul(Mul(FloorDiv(Square(speed.ret), s.height),
                         WALK_CALORIE_2),
                     s.weight)),
             Mul(s.duration_km, MINUTES_IN_HOURS)))

Swimming_get_spent_calories(self) ==
    LET speed == get_mean_speed(self)
        s == speed.self
    IN Return(s, Mul(Mul(Add(speed.ret, SWIM_CALORIE_1), SWIM_CALORIE_2),
                     s.weight))

get_spent_calories(self) ==
    CASE self.cls = "Running" -> Running_get_spent_calories(self)
      [] self.cls = "SportsWalking" -> SportsWalking_get_spent_calories(self)
      [] self.cls = "Swimming" -> Swimming_get_spent_calories(self)
      [] OTHER -> Training_get_spent_calories(self)

\* the exception of the first argument that raised, or the InfoMessage
show_training_info(self) ==
    LET dist == get_distance(self)
        speed == get_mean_speed(dist.self)
        cal == get_spent_calories(speed.self)
        s == cal.self
        e == IF dist.ret.err # "none" THEN dist.ret.err
             ELSE IF speed.ret.err # "none" THEN speed.ret.err
             ELSE cal.ret.err
    IN Return(s, [err |-> e,
                  info |-> IF e = "none"
                           THEN InfoMessage(self.cls, self.duration_km,
                                            dist.ret, speed.ret, cal.ret)
                           ELSE NoInfo])

(***************************** read_package ********************************)
NoTraining == [cls |-> "None"]

class_data == [c \in {"SWM", "RUN", "WLK"} |->
                 CASE c = "SWM" -> "Swimming"
                   [] c = "RUN" -> "Running"
                   [] c = "WLK" -> "SportsWalking"]

\* the number of positional arguments each class's __init__ takes
Arity(cls) ==
    CASE cls = "Running" -> 3
      [] cls = "SportsWalking" -> 4
      [] cls = "Swimming" -> 5

\* faulty variant: surplus arguments are ignored
Construct_Lenient(cls, data) ==
    IF Len(data) < Arity(cls)
    THEN [err |-> "TypeError", training |-> NoTraining]
    ELSE [err |-> "none",
          training |->
            CASE cls = "Running" ->
                   Running_init(data[1], data[2], data[3])
              [] cls = "SportsWalking" ->
                   SportsWalking_init(data[1], data[2], data[3], data[4])
              [] cls = "Swimming" ->
                   Swimming_init(data[1], data[2], data[3], data[4],
                                 data[5])]

\* cls(*data): a TypeError unless data has exactly the constructor's
\* parameters, which it binds in order
Construct(cls, data) ==
    IF Len(data) # Arity(cls)
    THEN [err |-> "TypeError", training |-> NoTraining]
    ELSE [err |-> "none",
          training |->
            CASE cls = "Running" ->
                   Running_init(data[1], data[2], data[3])
              [] cls = "SportsWalking" ->
                   SportsWalking_init(data[1], data[2], data[3], data[4])
              [] cls = "Swimming" ->
                   Swimming_init(data[1], data[2], data[3], data[4],
                                 data[5])]

\* faulty variant: an unknown code falls back to Running
read_package_DefaultRunning(workout_type, data) ==
    IF workout_type \in DOMAIN class_data
    THEN Construct(class_data[workout_type], data)
    ELSE Construct("Running", data)

read_package(workout_type, data) ==
    IF workout_type \in DOMAIN class_data
    THEN Construct(class_data[workout_type], data)
    ELSE [err |-> "ValueError", training |-> NoTraining]

(***************************** inputs **************************************)
Half == Rat(1, 2)

\* the candidate values of the k-th element of a data list
FieldVals(k) ==
    CASE k = 1 -> {Int2Num(v) : v \in {-2000, 0, 720, 9000, 15000}
                                        \cup {2000 * j : j \in 1..MaxK}}
      [] k = 2 -> {Int2Num(v) : v \in {-1, 0} \cup 1..MaxK}
                  \cup {Half, Rat(117, 100)}
      [] k = 3 -> {Int2Num(v) : v \in {-75, 0, 75, 80}}
      [] k = 4 -> {Int2Num(v) : v \in {0, 1, 25, 180}}
      [] k = 5 -> {Int2Num(v) : v \in {0, 1, 40}}
      [] OTHER -> {Int2Num(0)}

RECURSIVE DataLists(_)
DataLists(n) ==
    IF n = 0 THEN {<<>>}
    ELSE {Append(d, v) : d \in DataLists(n - 1), v \in FieldVals(n)}

Codes == {"SWM", "RUN", "WLK", "XYZ"}

AllPackages ==
    {<<c, d>> : c \in Codes, d \in UNION {DataLists(n) : n \in 0..MaxLen}}

Nums(ks) == [k \in 1..Len(ks) |-> Int2Num(ks[k])]

\* the list under __main__
SourcePackages ==
    << <<"SWM", Nums(<<720, 1, 80, 25, 40>>)>>,
       <<"RUN", Nums(<<15000, 1, 75>>)>>,
       <<"WLK", Nums(<<9000, 1, 75, 180>>)>> >>

\* the packages batches are drawn from: those of the source and failing ones
BatchPackages ==
    {SourcePackages[k] : k \in 1..3}
    \cup {<<"XYZ", Nums(<<720, 1, 80>>)>>,
          <<"RUN", Nums(<<15000, 1>>)>>,
          <<"RUN", Nums(<<15000, 1, 75, 180>>)>>,
          <<"WLK", Nums(<<9000, 0, 75, 180>>)>>,
          <<"WLK", Nums(<<9000, 1, 75, 0>>)>>,
          <<"SWM", Nums(<<720, 0, 80, 25, 40>>)>>}

RECURSIVE Lists(_, _)
Lists(S, n) ==
    IF n = 0 THEN {<<>>}
    ELSE Lists(S, n - 1)
         \cup {Append(l, x) : l \in {m \in Lists(S, n - 1) : Len(m) = n - 1},
                              x \in S}

(***************************** the batch loop ******************************)
Init ==
    /\ packages \in Lists(BatchPackages, MaxPackages)
                    \cup {<<p>> : p \in AllPackages}
    /\ idx = 1
    /\ pc = "loop"
    /\ training = NoTraining
    /\ info = NoInfo
    /\ output = <<>>
    /\ error = "none"
    /\ records = <<>>
    /\ results = <<>>
    /\ ncalls = 0

\* training = read_package(workout_type, data) for the next package
ReadPackage ==
    /\ pc = "loop"
    /\ idx <= Len(packages)
    /\ LET r == read_package(packages[idx][1], packages[idx][2])
       IN IF r.err = "none"
          THEN /\ training' = r.training
               /\ pc' = "main"
               /\ error' = error
          ELSE /\ training' = training
               /\ pc' = "failed"
               /\ error' = r.err
    /\ UNCHANGED <<packages, idx, info, output, callVars>>

\* faulty variant: a failing summary is swallowed and the loop goes on
Main_Swallow ==
    /\ pc = "main"
    /\ LET r == show_training_info(training)
       IN /\ training' = r.self
          /\ IF r.ret.err = "none"
             THEN /\ info' = r.ret.info
                  /\ output' = Append(output, get_message(r.ret.info))
             ELSE UNCHANGED <<info, output>>
          /\ idx' = idx + 1
          /\ pc' = "loop"
          /\ error' = error
    /\ UNCHANGED <<packages, callVars>>

\* main(training): show_training_info, then print(info.get_message())
Main ==
    /\ pc = "main"
    /\ LET r == show_training_info(training)
       IN /\ training' = r.self
          /\ IF r.ret.err = "none"
             THEN /\ info' = r.ret.info
                  /\ output' = Append(output, get_message(r.ret.info))
                  /\ idx' = idx + 1
                  /\ pc' = "loop"
                  /\ error' = error
             ELSE /\ pc' = "failed"
                  /\ error' = r.ret.err
                  /\ UNCHANGED <<info, output, idx>>
    /\ UNCHANGED <<packages, callVars>>

\* the for loop is exhausted
LoopExit ==
    /\ pc = "loop"
    /\ idx > Len(packages)
    /\ pc' = "done"
    /\ UNCHANGED <<packages, idx, training, info, output, error, callVars>>

Next == ReadPackage \/ Main \/ LoopExit

Spec == Init /\ [][Next]_vars

(***************************** method calls on records *********************)
Methods ==
    {"get_distance", "get_mean_speed", "get_spent_calories",
     "show_training_info"}

NoResult == [err |-> "unset"]

\* the records read_package constructs from the batch packages
CallRecords ==
    {read_package(p[1], p[2]).training :
       p \in {q \in BatchPackages : read_package(q[1], q[2]).err = "none"}}

RECURSIVE SumOver(_, _)
SumOver(f, S) ==
    IF S = {} THEN 0
    ELSE LET x == CHOOSE y \in S : TRUE
         IN f[x] + SumOver(f, S \ {x})

TotalCalls ==
    SumOver([r \in DOMAIN ncalls |-> SumOver(ncalls[r], Methods)],
            DOMAIN ncalls)

InitCalls ==
    /\ records \in [1..2 -> CallRecords]
    /\ results = [r \in 1..2 |-> [m \in Methods |-> NoResult]]
    /\ ncalls = [r \in 1..2 |-> [m \in Methods |-> 0]]
    /\ packages = <<>>
    /\ idx = 1
    /\ pc = "calls"
    /\ training = NoTraining
    /\ info = NoInfo
    /\ output = <<>>
    /\ error = "none"

\* a call of method m on record r: the object as the call leaves it, and
\* the call's value or exception
Called(r, m, res) ==
    /\ TotalCalls < MaxCalls
    /\ records' = [records EXCEPT ![r] = res.self]
    /\ results' = [results EXCEPT ![r][m] = res.ret]
    /\ ncalls' = [ncalls EXCEPT ![r][m] = @ + 1]
    /\ UNCHANGED batchVars

CallGetDistance ==
    \E r \in DOMAIN records :
      Called(r, "get_distance", get_distance(records[r]))

CallGetMeanSpeed ==
    \E r \in DOMAIN records :
      Called(r, "get_mean_speed", get_mean_speed(records[r]))

CallGetSpentCalories ==
    \E r \in DOMAIN records :
      Called(r, "get_spent_calories", get_spent_calories(records[r]))

CallShowTrainingInfo ==
    \E r \in DOMAIN records :
      Called(r, "show_training_info", show_training_info(records[r]))

NextCalls ==
    \/ CallGetDistance
    \/ CallGetMeanSpeed
    \/ CallGetSpentCalories
    \/ CallShowTrainingInfo

SpecCalls == InitCalls /\ [][NextCalls]_vars

(***************************** properties **********************************)
KnownCodes == {"SWM", "RUN", "WLK"}

\* the field count of each variant, as the specification lists the fields
FieldCount(code) ==
    CASE code = "RUN" -> 3
      [] code = "WLK" -> 4
      [] code = "SWM" -> 5

\* the package the loop is at, and the one it summarised last
AtPackage == idx <= Len(packages)
Code == packages[idx][1]
Data == packages[idx][2]
Summarised == idx > 1
LastCode == packages[idx - 1][1]
LastData == packages[idx - 1][2]

WellFormed(p) == p[1] \in KnownCodes /\ Len(p[2]) = FieldCount(p[1])

\* C1: a code outside {SWM, RUN, WLK} ends read_package in ValueError
\* whatever the data, without a record being constructed; a code inside the
\* set never ends in ValueError.
C1_UnknownCode ==
    /\ [](/\ (pc = "main" => Code \in KnownCodes)
          /\ (pc = "failed" /\ Code \notin KnownCodes
                => error = "ValueError" /\ (idx = 1 => training = NoTraining))
          /\ (error = "ValueError" => pc = "failed" /\ Code \notin KnownCodes)
          /\ (Summarised => LastCode \in KnownCodes))
    /\ [][pc = "loop" /\ AtPackage /\ Code \notin KnownCodes
            => /\ pc' = "failed"
               /\ error' = "ValueError"
               /\ training' = training
               /\ output' = output]_vars

C1_Witness ==
    /\ pc = "failed"
    /\ error = "ValueError"
    /\ Code = "XYZ"
    /\ Len(Data) = 3
    /\ training = NoTraining

\* C5: for a known code read_package constructs the variant iff len(data)
\* is the variant's field count, binding data in field order; any other
\* length ends in TypeError with no record.
C5_Arity ==
    /\ pc = "main" =>
         /\ WellFormed(packages[idx])
         /\ training.cls = class_data[Code]
         /\ training.action = Data[1]
         /\ training.duration_km = Data[2]
         /\ training.weight = Data[3]
         /\ (Code = "RUN" => DOMAIN training
                               = {"cls", "action", "duration_km", "weight"})
         /\ (Code = "WLK" => training.height = Data[4])
         /\ (Code = "SWM" => /\ training.length_pool = Data[4]
                             /\ training.count_pool = Data[5])
    /\ pc = "failed" /\ Code \in KnownCodes /\ ~WellFormed(packages[idx])
         => error = "TypeError" /\ (idx = 1 => training = NoTraining)
    /\ error = "TypeError"
         => pc = "failed" /\ Code \in KnownCodes /\ ~WellFormed(packages[idx])
    /\ pc = "failed" /\ WellFormed(packages[idx])
         => training.cls = class_data[Code]

C5_Witness ==
    /\ pc = "failed"
    /\ error = "TypeError"
    /\ Code = "SWM"
    /\ Len(Data) = 6
    /\ training = NoTraining

\* what the loop body does with package p: the error it ends in ("none"
\* when it prints) and the message it prints
Outcome(p) ==
    LET r == read_package(p[1], p[2])
        shown == show_training_info(r.training).ret
    IN IF r.err # "none" THEN [err |-> r.err, message |-> <<>>]
       ELSE IF shown.err # "none" THEN [err |-> shown.err, message |-> <<>>]
       ELSE [err |-> "none", message |-> get_message(shown.info)]

\* C7: the printed messages are always, in order, the summaries of a prefix
\* of the package list: the whole list once the loop ends, and the packages
\* before the first failing one when a package fails, after which nothing
\* more happens.
C7_Prefix ==
    /\ [](/\ Len(output) = idx - 1
          /\ Len(output) <= Len(packages)
          /\ \A k \in 1..Len(output) :
               /\ Outcome(packages[k]).err = "none"
               /\ output[k] = Outcome(packages[k]).message
          /\ (pc = "done" => Len(output) = Len(packages))
          /\ (pc = "failed" => /\ AtPackage
                               /\ Outcome(packages[idx]).err = error
                               /\ error # "none")
          /\ (pc \in {"loop", "main", "done"} => error = "none"))
    /\ [][pc # "failed" /\ pc # "done"]_vars

C7_Witness ==
    /\ pc = "failed"
    /\ Len(packages) = 3
    /\ idx = 2
    /\ Len(output) = 1
    /\ Outcome(packages[3]).err = "none"

\* C9: a well-formed package with duration 0 (or, for WLK, height 0) gets
\* its record constructed; the fault surfaces as ZeroDivisionError in
\* show_training_info, which yields no summary.
ZeroCase(p) ==
    /\ WellFormed(p)
    /\ \/ p[2][2].n = 0
       \/ p[1] = "WLK" /\ p[2][4].n = 0

C9_ZeroDivision ==
    /\ [](/\ (Summarised => ~ZeroCase(packages[idx - 1]))
          /\ (pc = "failed" /\ ZeroCase(packages[idx])
                => /\ error = "ZeroDivisionError"
                   /\ training.cls = class_data[Code]
                   /\ training.duration_km = Data[2]
                   /\ Len(output) = idx - 1)
          /\ (error = "ZeroDivisionError" => training.cls # "None"))
    /\ [][pc = "loop" /\ AtPackage /\ ZeroCase(packages[idx])
            => pc' = "main" /\ error' = "none"]_vars
    /\ [][pc = "main" /\ ZeroCase(packages[idx])
            => pc' = "failed" /\ info' = info /\ output' = output]_vars

C9_Witness ==
    /\ pc = "failed"
    /\ error = "ZeroDivisionError"
    /\ Code = "WLK"
    /\ Data[2].n # 0
    /\ Data[4].n = 0
    /\ training.cls = "SportsWalking"

\* the inputs of a well-formed package are all strictly positive
AllPositive(data) == \A k \in 1..Len(data) : data[k].n > 0

NonNegative(x) == x.err = "none" /\ x.n >= 0

RunExample == <<"RUN", Nums(<<15000, 1, 75>>)>>
WalkExample == <<"WLK", Nums(<<9000, 1, 75, 180>>)>>
SwimExample == <<"SWM", Nums(<<720, 1, 80, 25, 40>>)>>

\* C2 as stated: RUN [15000, 1, 75] gives distance 9.75, speed 9.75 and
\* calories of approximately 665.1 (665.1 to the one decimal it is given to).
C2_Original ==
    Summarised /\ packages[idx - 1] = RunExample
      => /\ info.distance = Rat(975, 100)
         /\ info.speed = Rat(975, 100)
         /\ Less(Rat(66505, 100), info.calories)
         /\ Less(info.calories, Rat(66515, 100))

\* C2 amended: Running calories are (18 * mean_speed - 20) * weight / 1000
\* * (duration * 60), with distance = action * 0.65 / 1000 and mean speed =
\* distance / duration; RUN [15000, 1, 75] gives distance 9.75, speed 9.75
\* and calories 699.75.
C2_Running ==
    /\ Summarised /\ LastCode = "RUN"
         => /\ info.distance
                 = Div(Mul(LastData[1], Rat(65, 100)), Int2Num(1000))
            /\ info.speed = Div(info.distance, LastData[2])
            /\ info.calories
                 = Mul(Div(Mul(Sub(Mul(Int2Num(18), info.speed), Int2Num(20)),
                               LastData[3]),
                           Int2Num(1000)),
                       Mul(LastData[2], Int2Num(60)))
    /\ Summarised /\ packages[idx - 1] = RunExample
         => /\ info.distance = Rat(975, 100)
            /\ info.speed = Rat(975, 100)
            /\ info.calories = Rat(69975, 100)

C2_Witness ==
    /\ Summarised
    /\ packages[idx - 1] = RunExample
    /\ info.training_type = "Running"
    /\ info.calories = Rat(69975, 100)

\* C3: Walking calories are (0.035 * weight + floor(mean_speed^2 / height)
\* * 0.029 * weight) * (duration * 60); when mean_speed^2 < height they are
\* 0.035 * weight * duration * 60; WLK [9000, 1, 75, 180] gives distance
\* 5.85, speed 5.85 and calories 157.5.
C3_Walking ==
    /\ Summarised /\ LastCode = "WLK"
         => LET q == Div(Square(info.speed), LastData[4])
                floor == Int2Num(q.n \div q.d)
            IN /\ floor.n * q.d <= q.n
               /\ q.n < (floor.n + 1) * q.d
               /\ info.calories
                    = Mul(Add(Mul(Rat(35, 1000), LastData[3]),
                              Mul(Mul(floor, Rat(29, 1000)), LastData[3])),
                          Mul(LastData[2], Int2Num(60)))
               /\ (Less(Square(info.speed), LastData[4])
                     => info.calories
                          = Mul(Mul(Mul(Rat(35, 1000), LastData[3]),
                                    LastData[2]),
                                Int2Num(60)))
    /\ Summarised /\ packages[idx - 1] = WalkExample
         => /\ info.distance = Rat(585, 100)
            /\ info.speed = Rat(585, 100)
            /\ info.calories = Rat(1575, 10)

C3_Witness ==
    /\ Summarised
    /\ packages[idx - 1] = WalkExample
    /\ info.training_type = "SportsWalking"
    /\ Less(Square(info.speed), LastData[4])
    /\ info.calories = Rat(1575, 10)

\* C4: Swimming mean speed is pool_length * lap_count / 1000 / duration
\* whatever the stroke count, the distance is action * 1.38 / 1000 whatever
\* the pool length and lap count, and calories are (mean_speed + 1.1) * 2 *
\* weight; SWM [720, 1, 80, 25, 40] gives speed 1.0 and calories 336.0.
C4_Swimming ==
    /\ Summarised /\ LastCode = "SWM"
         => LET rec == read_package(LastCode, LastData).training IN
            /\ info.speed
                 = Div(Div(Mul(LastData[4], LastData[5]), Int2Num(1000)),
                       LastData[2])
            /\ info.distance
                 = Div(Mul(LastData[1], Rat(138, 100)), Int2Num(1000))
            /\ info.calories
                 = Mul(Mul(Add(info.speed, Rat(11, 10)), Int2Num(2)),
                       LastData[3])
            /\ \A a \in FieldVals(1) :
                 get_mean_speed([rec EXCEPT !.action = a]).ret
                   = info.speed
            /\ \A l \in FieldVals(4), c \in FieldVals(5) :
                 get_distance([rec EXCEPT !.length_pool = l,
                                          !.count_pool = c]).ret
                   = info.distance
    /\ Summarised /\ packages[idx - 1] = SwimExample
         => /\ info.speed = Int2Num(1)
            /\ info.calories = Int2Num(336)

C4_Witness ==
    /\ Summarised
    /\ packages[idx - 1] = SwimExample
    /\ info.training_type = "Swimming"
    /\ info.speed = Int2Num(1)
    /\ info.distance # info.speed

\* C6: for every variant constructed from strictly positive inputs,
\* get_distance() and get_mean_speed() are non-negative, and so are the
\* distance and speed of the summary show_training_info() returns.
C6_NonNegative ==
    /\ pc = "main" /\ AllPositive(Data)
         => /\ NonNegative(get_distance(training).ret)
            /\ NonNegative(get_mean_speed(training).ret)
            /\ show_training_info(training).ret.err = "none"
    /\ Summarised /\ AllPositive(LastData)
         => NonNegative(info.distance) /\ NonNegative(info.speed)
    /\ pc = "failed" /\ WellFormed(packages[idx]) => ~AllPositive(Data)

C6_Witness ==
    /\ Summarised
    /\ LastCode = "SWM"
    /\ AllPositive(LastData)
    /\ Positive(info.distance)
    /\ Positive(info.speed)

\* C10: with strictly positive inputs Running calories are negative exactly
\* when 18 * action * 0.65 / 1000 < 20 * duration, zero exactly at equality
\* and positive otherwise; Walking and Swimming calories are always
\* strictly positive.
C10_CalorieSign ==
    Summarised /\ AllPositive(LastData)
      => LET lhs == Div(Mul(Mul(Int2Num(18), LastData[1]), Rat(65, 100)),
                        Int2Num(1000))
             rhs == Mul(Int2Num(20), LastData[2])
         IN /\ info.calories.err = "none"
            /\ (LastCode = "RUN"
                  => /\ (info.calories.n < 0 <=> Less(lhs, rhs))
                     /\ (info.calories.n = 0 <=> lhs = rhs)
                     /\ (info.calories.n > 0 <=> Less(rhs, lhs))
                     /\ (Less(info.speed, Rat(20, 18)) <=> Less(lhs, rhs)))
            /\ (LastCode \in {"WLK", "SWM"} => info.calories.n > 0)

C10_Witness ==
    /\ Summarised
    /\ LastCode = "RUN"
    /\ AllPositive(LastData)
    /\ info.calories.n < 0

\* C8: get_distance, get_mean_speed, get_spent_calories and
\* show_training_info leave every field of the record unchanged, and a
\* method called again on a record returns what it returned before,
\* whatever was called in between on this or the other record.
C8_Immutable ==
    /\ [](\A r1 \in DOMAIN records, r2 \in DOMAIN records, m \in Methods :
            /\ records[r1] = records[r2]
            /\ results[r1][m] # NoResult
            /\ results[r2][m] # NoResult
            => results[r1][m] = results[r2][m])
    /\ [][/\ records' = records
          /\ \A r \in DOMAIN records, m \in Methods :
               results[r][m] # NoResult => results'[r][m] = results[r][m]]_vars

C8_Witness ==
    /\ pc = "calls"
    /\ ncalls[1]["get_mean_speed"] = 2
    /\ ncalls[1]["show_training_info"] = 1
    /\ ncalls[2]["get_spent_calories"] = 1
    /\ records[1].cls = "Swimming"
    /\ records[2].cls = "SportsWalking"
    /\ results[1]["get_mean_speed"].err = "none"

====
